---- MODULE Spec2Model ----
(***************************************************************************)
(* A model of linkedin_scraper.py: the daily LinkedIn lead search.         *)
(*                                                                         *)
(* Text is modelled by TLA+ strings read as sequences of characters        *)
(* (Len, SubSeq, \o), so that lower-casing and substring search are        *)
(* computed character by character as the Python code computes them.       *)
(* Only ASCII letters are given a case; str.lower() of other characters    *)
(* is outside the inputs explored here.                                    *)
(***************************************************************************)
EXTENDS Integers, Sequences, FiniteSets, TLC

----------------------------------------------------------------------------
(* String helpers: str.lower(), the `in` substring test, slicing.          *)

UpperCase == "ABCDEFGHIJKLMNOPQRSTUVWXYZ"
LowerCase == "abcdefghijklmnopqrstuvwxyz"

CharAt(s, i) == SubSeq(s, i, i)

Min(a, b) == IF a <= b THEN a ELSE b

\* The upper-case letters, one string each, in alphabet order.
UpperChars == [ i \in 1..Len(UpperCase) |-> CharAt(UpperCase, i) ]

\* str.lower() on one character.
lower_char(c) ==
    LET at == { i \in 1..Len(UpperCase) : UpperChars[i] = c }
    IN  IF at = {} THEN c ELSE CharAt(LowerCase, CHOOSE i \in at : TRUE)

\* str.lower(): every character lower-cased, in order.
RECURSIVE str_lower(_)
str_lower(s) ==
    IF Len(s) = 0 THEN "" ELSE lower_char(Head(s)) \o str_lower(Tail(s))

\* Python's `sub in s`: sub occurs in s as a contiguous run of characters.
Contains(sub, s) ==
    \E i \in 1..(Len(s) - Len(sub) + 1) : SubSeq(s, i, i + Len(sub) - 1) = sub

\* s[:n] (Python) and s.substring(0, n) (JavaScript), n >= 0.
Prefix(s, n) == SubSeq(s, 1, Min(n, Len(s)))

\* any(term in text for term in terms)
any_in(terms, text) == \E i \in 1..Len(terms) : Contains(terms[i], text)

Digits == "0123456789"

\* str(n) for a natural number n.
RECURSIVE IntToStr(_)
IntToStr(n) ==
    IF n < 10 THEN CharAt(Digits, n + 1)
    ELSE IntToStr(n \div 10) \o CharAt(Digits, (n % 10) + 1)

----------------------------------------------------------------------------
(* The tables of LinkedInJobScraper.__init__ and filter_quality_leads.     *)

\* self.search_queries: the pool of query variations.
search_queries ==
    << "(salesforce OR \"program manager\" OR \"release manager\" OR \"data strategy\" OR \"agile coach\" OR CDP OR martech OR \"business intelligence\" OR CRM OR \"digital transformation\") AND (contract OR freelance OR consultant OR \"looking for\" OR \"seeking\" OR \"need\" OR \"hiring\" OR \"project\" OR \"interim\") AND (remote OR europe OR EU OR \"work from home\" OR WFH)",
       "(\"salesforce architect\" OR \"program manager\" OR \"release manager\" OR \"CDP specialist\" OR \"agile coach\" OR \"BI manager\" OR \"data strategist\") AND (freelance OR contract OR consultant OR \"3-6 months\" OR \"6-12 months\" OR interim OR project) AND (remote OR \"remote work\" OR europe)",
       "(salesforce OR tableau OR \"marketing cloud\" OR \"service cloud\" OR agile OR scrum OR \"data analytics\" OR CDP OR martech) AND (\"looking for\" OR \"need a\" OR \"seeking\" OR hiring OR contract OR freelance OR consultant) AND (remote OR EU OR europe OR \"work from anywhere\")",
       "(salesforce OR \"program management\" OR \"release management\" OR \"agile transformation\" OR \"data strategy\") AND (pharma OR retail OR healthcare OR telecom OR \"life sciences\" OR fintech OR banking) AND (contract OR freelance OR consultant OR \"project basis\") AND (remote OR europe)" >>

\* self.exclusions: job-seeker phrases.
exclusions ==
    << "open to work", "opentowork", "looking for opportunities",
       "seeking new role", "job search", "career change", "actively looking",
       "available for hire", "seeking opportunities", "#opentowork",
       "jobseekers", "candidates", "seeking a position" >>

\* self.persona_keywords: the personas in dict order, and each one's keywords.
persona_names ==
    << "martech_cdp", "agile_coach", "service_cloud", "program_manager",
       "bi_analytics", "solution_architect", "release_manager", "data_strategy",
       "transformation", "industry_specific" >>

persona_keywords ==
    << << "CDP", "customer data platform", "martech", "marketing cloud",
   "personalization" >>,
    << "agile", "scrum", "transformation", "coaching", "scaled agile", "SAFe" >>,
    << "service cloud", "case management", "field service", "customer service" >>,
    << "program manager", "project manager", "PMO", "portfolio management" >>,
    << "tableau", "business intelligence", "analytics", "einstein analytics",
   "CRM analytics" >>,
    << "architect", "technical design", "integration", "API", "system design" >>,
    << "release", "deployment", "devops", "CI/CD", "change management" >>,
    << "data strategy", "data governance", "data architecture", "MDM" >>,
    << "digital transformation", "change management", "organizational change" >>,
    << "pharma", "healthcare", "retail", "telecom", "financial services",
   "life sciences" >> >>

\* hiring_signals
hiring_signals ==
    << "hiring", "looking for", "seeking", "need", "opportunity", "position",
       "role", "join our team", "we are looking", "contract position",
       "freelance opportunity", "consultant needed", "project starts",
       "immediate start", "urgently need" >>

\* quality_indicators
quality_indicators ==
    << "urgent", "asap", "start immediately", "competitive rate",
       "remote first", "flexible", "experienced", "senior", "3-6 months",
       "6-12 months", "interim", "transformation", "enterprise", "global",
       "multinational" >>

\* location_indicators: 'EU', 'WFH', 'CET' and 'GMT' are written in upper case.
location_indicators ==
    << "germany", "netherlands", "france", "spain", "italy", "poland", "sweden",
       "denmark", "austria", "belgium", "ireland", "portugal", "finland",
       "norway", "switzerland", "europe", "EU", "european union", "remote",
       "work from home", "WFH", "work from anywhere", "timezone", "CET", "GMT" >>

\* industry_signals
industry_signals ==
    << "pharma", "pharmaceutical", "healthcare", "life sciences", "retail",
       "beauty", "cosmetics", "telecom", "telco", "financial services",
       "fintech", "banking", "insurance" >>

\* The inline list of the contract/freelance boost.
contract_terms == << "contract", "freelance", "consultant", "interim" >>

\* The inline list of the immediate-availability boost.
immediate_terms == << "urgent", "asap", "immediately", "start soon" >>

HiringWeight == 4
QualityWeight == 2
LocationWeight == 2
IndustryWeight == 2
PersonaWeight == 2
ContractWeight == 2
ImmediateWeight == 3
MinQualityScore == 4
ScoreCap == 10
TopLeads == 9

----------------------------------------------------------------------------
(* filter_quality_leads: exclusion, scoring, threshold, ranking.           *)

\* is_excluded with all(...) in place of any(...).
is_excluded_by_all(text_lower) ==
    \A i \in 1..Len(exclusions) : Contains(exclusions[i], text_lower)

\* The job-seeker test of one post, on its lower-cased text.
is_excluded(text_lower) == any_in(exclusions, text_lower)

\* The four base categories and the two boosts, each as the code tests it:
\* the table term as written, searched in the lower-cased text.
hiring_hit(text_lower) == any_in(hiring_signals, text_lower)
quality_hit(text_lower) == any_in(quality_indicators, text_lower)
location_hit(text_lower) == any_in(location_indicators, text_lower)
industry_hit(text_lower) == any_in(industry_signals, text_lower)
contract_hit(text_lower) == any_in(contract_terms, text_lower)
immediate_hit(text_lower) == any_in(immediate_terms, text_lower)

\* keyword.lower() for every persona keyword, in table order.
persona_keywords_lower ==
    [ n \in 1..Len(persona_keywords) |->
        [ j \in 1..Len(persona_keywords[n]) |->
            str_lower(persona_keywords[n][j]) ] ]

\* sum(1 for keyword in keywords if keyword.lower() in text_lower), for the
\* n-th persona.
persona_count(n, text_lower) ==
    Cardinality({ j \in 1..Len(persona_keywords_lower[n]) :
                    Contains(persona_keywords_lower[n][j], text_lower) })

\* The score added by personas 1..n, in dict order.
RECURSIVE persona_score(_, _)
persona_score(n, text_lower) ==
    IF n = 0 THEN 0
    ELSE persona_score(n - 1, text_lower)
         + persona_count(n, text_lower) * PersonaWeight

\* persona_matches: "persona(count)" for every persona with a match.
RECURSIVE persona_matches_upto(_, _)
persona_matches_upto(n, text_lower) ==
    IF n = 0 THEN << >>
    ELSE LET matches == persona_count(n, text_lower)
             before  == persona_matches_upto(n - 1, text_lower)
         IN  IF matches > 0
             THEN Append(before,
                         persona_names[n] \o "(" \o IntToStr(matches) \o ")")
             ELSE before

\* The raw score of a post that passed the exclusion test.
raw_score(text_lower) ==
      (IF hiring_hit(text_lower) THEN HiringWeight ELSE 0)
    + (IF quality_hit(text_lower) THEN QualityWeight ELSE 0)
    + (IF location_hit(text_lower) THEN LocationWeight ELSE 0)
    + (IF industry_hit(text_lower) THEN IndustryWeight ELSE 0)
    + persona_score(Len(persona_keywords), text_lower)
    + (IF contract_hit(text_lower) THEN ContractWeight ELSE 0)
    + (IF immediate_hit(text_lower) THEN ImmediateWeight ELSE 0)

\* capped_score without the cap: the raw sum is stored.
uncapped_score(score) == score

\* min(score, 10)
capped_score(score) == Min(score, ScoreCap)

\* meets_threshold with the threshold one lower.
meets_lower_threshold(score) == score >= MinQualityScore - 1

\* score >= 4
meets_threshold(score) == score >= MinQualityScore

\* The post as the loop body leaves it when it appends it: three keys added.
scored_lead(post, text_lower, score) ==
    [ text   |-> post.text,
      author |-> post.author,
      time   |-> post.time,
      url    |-> post.url,
      id     |-> post.id,
      quality_score  |-> capped_score(score),
      persona_matches |->
          persona_matches_upto(Len(persona_keywords), text_lower),
      search_terms_found |->
          SelectSeq(hiring_signals \o quality_indicators,
                    LAMBDA term : Contains(term, text_lower)) ]

\* One pass of the loop body: << >> when the post is skipped (excluded, or
\* below the threshold), << lead >> when it is appended to quality_leads.
loop_body(post) ==
    LET text_lower == str_lower(post.text)
    IN  IF is_excluded(text_lower) THEN << >>
        ELSE LET score == raw_score(text_lower)
             IN  IF meets_threshold(score)
                 THEN << scored_lead(post, text_lower, score) >>
                 ELSE << >>

\* quality_leads after the loop: the appended leads, in input order.
RECURSIVE collect_leads(_)
collect_leads(posts) ==
    IF posts = << >> THEN << >>
    ELSE collect_leads(SubSeq(posts, 1, Len(posts) - 1))
         \o loop_body(posts[Len(posts)])

\* insert_by_score with > in place of >=: x goes before the leads of its
\* own score.
insert_before_ties(x, sorted) ==
    LET k == Cardinality({ i \in 1..Len(sorted) :
                             sorted[i].quality_score > x.quality_score })
    IN  SubSeq(sorted, 1, k) \o << x >> \o SubSeq(sorted, k + 1, Len(sorted))

\* One step of a stable descending sort: x goes after every lead whose
\* quality_score is at least its own.
insert_by_score(x, sorted) ==
    LET k == Cardinality({ i \in 1..Len(sorted) :
                             sorted[i].quality_score >= x.quality_score })
    IN  SubSeq(sorted, 1, k) \o << x >> \o SubSeq(sorted, k + 1, Len(sorted))

\* list.sort(key=quality_score, reverse=True): descending, and stable (leads
\* of equal score keep their order).
RECURSIVE sort_by_score(_)
sort_by_score(leads) ==
    IF leads = << >> THEN << >>
    ELSE LET n == Len(leads)
         IN  insert_by_score(leads[n], sort_by_score(SubSeq(leads, 1, n - 1)))

\* quality_leads[:9]
top_leads(leads) == SubSeq(leads, 1, Min(TopLeads, Len(leads)))

filter_quality_leads(posts) == top_leads(sort_by_score(collect_leads(posts)))

\* The caller's list after the call: the loop writes the three keys into the
\* dict of every post it appends (post[...] = ...), so an accepted post of
\* the list is the lead itself; a skipped post is left as it was.
posts_after_filter(posts) ==
    [ i \in 1..Len(posts) |->
        LET appended == loop_body(posts[i])
        IN  IF appended = << >> THEN posts[i] ELSE appended[1] ]

----------------------------------------------------------------------------
(* search_posts: the query of the day and the extraction script.           *)

MaxPostIndex == 20
TextLimit == 500
MinTextLength == 50
QueryPreviewLength == 50

\* An element's optional child (a querySelector result): << >> when the
\* selector finds nothing, << value >> otherwise.
Missing == << >>

\* query_index = today.day % len(self.search_queries)
query_index(date) == date.day % Len(search_queries)

\* self.search_queries[query_index]
current_query(date) == search_queries[query_index(date) + 1]

\* current_query[:50] + "..."
query_preview(date) == Prefix(current_query(date), QueryPreviewLength) \o "..."

\* The WhiteSpace and LineTerminator characters a string of the model can
\* hold, the ASCII ones: space, tab, line feed, vertical tab (U+000B, which
\* has no escape and stands as the character itself in the fourth string),
\* form feed, carriage return.
Whitespace == { " ", "\t", "\n", "", "\f", "\r" }

\* String.prototype.trim(): leading and trailing whitespace removed.
RECURSIVE trim_left(_)
trim_left(s) ==
    IF Len(s) > 0 /\ Head(s) \in Whitespace THEN trim_left(Tail(s)) ELSE s

RECURSIVE trim_right(_)
trim_right(s) ==
    IF Len(s) > 0 /\ CharAt(s, Len(s)) \in Whitespace
    THEN trim_right(SubSeq(s, 1, Len(s) - 1))
    ELSE s

trim(s) == trim_right(trim_left(s))

\* href.split('?')[0]: the part of href before its first '?'.
before_query(href) ==
    LET marks == { i \in 1..Len(href) : CharAt(href, i) = "?" }
    IN  IF marks = {} THEN href
        ELSE SubSeq(href, 1, (CHOOSE i \in marks : \A j \in marks : i <= j) - 1)

\* The object the script pushes for the element at a 0-based index.
raw_record(element, index) ==
    [ text   |-> Prefix(element.textContent, TextLimit),
      author |-> IF element.author = Missing THEN "Unknown"
                 ELSE trim(element.author[1]),
      time   |-> IF element.time = Missing THEN "Unknown"
                 ELSE trim(element.time[1]),
      url    |-> IF element.link = Missing THEN ""
                 ELSE "https://www.linkedin.com" \o before_query(element.link[1]),
      id     |-> IF element.data_id # "" THEN element.data_id
                 ELSE "post_" \o IntToStr(index) ]

\* The forEach callback returns early when index > 20.
is_visited(index) == ~(index > MaxPostIndex)

\* posts before the final filter: one record per visited element, in page
\* order.
pushed_records(elements) ==
    LET visited == { i \in 1..Len(elements) : is_visited(i - 1) }
    IN  [ i \in 1..Cardinality(visited) |-> raw_record(elements[i], i - 1) ]

\* is_eligible without the url test.
is_eligible_by_text_only(post) == Len(post.text) > MinTextLength

\* post.url && post.text.length > 50
is_eligible(post) == post.url # "" /\ Len(post.text) > MinTextLength

\* posts.filter(post => post.url && post.text.length > 50)
extract_posts(elements) == SelectSeq(pushed_records(elements), is_eligible)

----------------------------------------------------------------------------
(* The calendar behind datetime.now(): the external scheduler starts one   *)
(* run per day.                                                            *)

FirstYear == 2024
LastYear == 2024

is_leap(year) == (year % 4 = 0 /\ year % 100 # 0) \/ year % 400 = 0

days_in_month(year, month) ==
    IF month = 2 THEN (IF is_leap(year) THEN 29 ELSE 28)
    ELSE IF month \in {4, 6, 9, 11} THEN 30 ELSE 31

Dates(year) ==
    { date \in [year : {year}, month : 1..12, day : 1..31] :
        date.day <= days_in_month(date.year, date.month) }

\* The calendar day after date.
next_day(date) ==
    IF date.day < days_in_month(date.year, date.month)
    THEN [date EXCEPT !.day = date.day + 1]
    ELSE IF date.month < 12
    THEN [date EXCEPT !.month = date.month + 1, !.day = 1]
    ELSE [year |-> date.year + 1, month |-> 1, day |-> 1]

----------------------------------------------------------------------------
(* State.                                                                  *)

VARIABLES
    pc,                 \* the position of the run (or of the input harness)
    step,               \* inside login_to_linkedin and search_posts: the
                        \* number of the awaited call that comes next
    today,              \* datetime.now() of the run, as a date
    history,            \* the query indexes of the latest consecutive daily runs
    browser,            \* "none", "open" or "closed"
    close_called,       \* browser.close() has been executed
    pending,            \* an exception is propagating out of the try block
    surface,            \* what the browser page shows: "blank", "login" (the
                        \* login form), "feed" or "checkpoint"
    login_result,       \* "pending", "True" or "False"
    searched,           \* search_posts has been called
    page,               \* the div[data-id] elements of the result page
    all_posts,          \* the posts handed to filter_quality_leads (it writes to them)
    search_query_used,  \* the second value search_posts returned
    quality_leads,      \* the value filter_quality_leads returned
    sent,               \* the send_email invocations, in order
    delivered           \* the SMTP conversation of send_email succeeded

vars == << pc, step, today, history, browser, close_called, pending, surface,
           login_result, searched, page, all_posts, search_query_used,
           quality_leads, sent, delivered >>

\* The state of a LinkedInJobScraper before run_daily_search has done anything.
Fresh ==
    /\ step = 0
    /\ history = << >>
    /\ browser = "none"
    /\ close_called = FALSE
    /\ pending = FALSE
    /\ surface = "blank"
    /\ login_result = "pending"
    /\ searched = FALSE
    /\ page = << >>
    /\ all_posts = << >>
    /\ search_query_used = ""
    /\ quality_leads = << >>
    /\ sent = << >>
    /\ delivered = FALSE

----------------------------------------------------------------------------
(* The result pages explored: up to MaxElements elements drawn from a pool *)
(* that holds every extraction case (link or none, text of fewer than 50, *)
(* of 50, of 51 and of more characters, a lead, a job seeker, a post       *)
(* without signals).                                                       *)

MaxElements == 2

ShortText == "Hiring a remote Salesforce architect"
HiringText == "Hiring: senior Salesforce architect, remote, Europe, 6 months"
Text50 == "We are hiring a data analyst for the Berlin office"
Text51 == "We are hiring a data analyst for the Berlin offices"
SeekerText == "Open to work: Salesforce consultant, hiring managers welcome"
PlainText == "Had a great time at the conference in Lisbon with my friends"

ElementPool ==
    { [ textContent |-> HiringText, link |-> << "/posts/acme-1?trk=feed" >>,
        data_id |-> "urn:li:activity:1", author |-> << " Acme HR " >>,
        time |-> << "2h" >> ],
      [ textContent |-> HiringText, link |-> Missing,
        data_id |-> "urn:li:activity:2", author |-> << "Acme HR" >>,
        time |-> << "2h" >> ],
      [ textContent |-> ShortText, link |-> << "/posts/gamma-7" >>,
        data_id |-> "urn:li:activity:7", author |-> << "Gamma" >>,
        time |-> << "4h" >> ],
      [ textContent |-> Text50, link |-> << "/posts/beta-3" >>,
        data_id |-> "urn:li:activity:3", author |-> Missing,
        time |-> Missing ],
      [ textContent |-> Text51, link |-> << "/posts/beta-4" >>,
        data_id |-> "", author |-> Missing, time |-> << "1d " >> ],
      [ textContent |-> SeekerText, link |-> << "/posts/carol-5" >>,
        data_id |-> "urn:li:activity:5", author |-> << "Carol" >>,
        time |-> << "3h" >> ],
      [ textContent |-> PlainText, link |-> << "/posts/dan-6" >>,
        data_id |-> "urn:li:activity:6", author |-> << "Dan" >>,
        time |-> << "5h" >> ] }

Pages == UNION { [1..n -> ElementPool] : n \in 0..MaxElements }

\* The days on which the modelled run is started.
RunDates == { date \in Dates(FirstYear) : date.month = 2 /\ date.day >= 28 }

Surfaces == { "feed", "checkpoint", "login" }

----------------------------------------------------------------------------
(* run_daily_search, one action per awaited call.                          *)
(* login_to_linkedin and search_posts are coroutines: at each of their     *)
(* awaits the site acts and the call can fail, so each await is a step of  *)
(* its own and step counts them.  filter_quality_leads and send_email      *)
(* hold no await.  login_to_linkedin, search_posts and send_email catch    *)
(* every Exception themselves, so the except clause of run_daily_search    *)
(* (lines 372-373) is never entered from them and has no action of its     *)
(* own.                                                                    *)

\* The awaited calls of login_to_linkedin, in order.
login_steps ==
    << "goto", "random_delay", "fill", "random_delay", "fill",
       "random_delay", "click", "wait_for_load_state", "random_delay" >>

\* The awaited calls of search_posts, in order, those of human_like_scroll
\* (three times a scrollBy and a pause) in their place.
search_steps ==
    << "goto", "wait_for_load_state", "random_delay",
       "scrollBy", "random_delay", "scrollBy", "random_delay",
       "scrollBy", "random_delay", "evaluate" >>

awaited_steps ==
    IF pc = "login" THEN login_steps
    ELSE IF pc = "search" THEN search_steps
    ELSE << >>

\* The coroutine is suspended in the given call.
awaiting(call) == step \in DOMAIN awaited_steps /\ awaited_steps[step] = call

\* The awaited call returns: the coroutine goes on to its next await, and
\* login_to_linkedin, after its last one, returns True, on which
\* run_daily_search takes the branch of search_posts.
completes ==
    /\ IF pc = "login" /\ step = Len(login_steps)
       THEN login_result' = "True" /\ pc' = "search" /\ step' = 0
       ELSE login_result' = login_result /\ pc' = pc /\ step' = step + 1
    /\ UNCHANGED << pending, all_posts, search_query_used >>

\* The awaited call raises an Exception, which the coroutine's own except
\* clause catches: login_to_linkedin returns False, and the else branch of
\* run_daily_search only logs; search_posts returns ([], "Search failed").
caught ==
    /\ IF pc = "login"
       THEN /\ login_result' = "False"
            /\ pc' = "finally"
            /\ UNCHANGED << all_posts, search_query_used >>
       ELSE /\ login_result' = login_result
            /\ pc' = "filter"
            /\ all_posts' = << >>
            /\ search_query_used' = "Search failed"
    /\ step' = 0
    /\ pending' = pending

\* The awaited call is interrupted (a BaseException: cancellation, Ctrl-C):
\* no except clause catches it and the finally clause is reached.
interrupted ==
    /\ pending' = TRUE
    /\ pc' = "finally"
    /\ step' = 0
    /\ UNCHANGED << login_result, all_posts, search_query_used >>

Init ==
    /\ pc = "launch"
    /\ today \in RunDates
    /\ Fresh

\* p.chromium.launch(...): the browser starts, or the launch raises and the
\* exception leaves run_daily_search with no browser to release.
launch ==
    /\ pc = "launch"
    /\ \/ browser' = "open" /\ pc' = "new_context"
       \/ browser' = "none" /\ pc' = "raised"
    /\ UNCHANGED << step, today, history, close_called, pending, surface,
                    login_result, searched, page, all_posts,
                    search_query_used, quality_leads, sent, delivered >>

\* browser.new_context(...), before the try statement: an exception leaves
\* run_daily_search at once.
new_context ==
    /\ pc = "new_context"
    /\ \/ pc' = "new_page"
       \/ pc' = "raised"
    /\ UNCHANGED << step, today, history, browser, close_called, pending,
                    surface, login_result, searched, page, all_posts,
                    search_query_used, quality_leads, sent, delivered >>

\* context.new_page(), before the try statement as well; when it returns,
\* login_to_linkedin(page) is called and runs up to its first await.
new_page ==
    /\ pc = "new_page"
    /\ \/ pc' = "login" /\ step' = 1
       \/ pc' = "raised" /\ step' = step
    /\ UNCHANGED << today, history, browser, close_called, pending, surface,
                    login_result, searched, page, all_posts,
                    search_query_used, quality_leads, sent, delivered >>

\* await page.goto("https://www.linkedin.com/login"): the login form is
\* shown; a failing navigation may or may not have shown it.
login_goto ==
    /\ pc = "login"
    /\ awaiting("goto")
    /\ \/ surface' = "login" /\ completes
       \/ surface' \in { surface, "login" } /\ caught
       \/ surface' \in { surface, "login" } /\ interrupted
    /\ UNCHANGED << today, history, browser, close_called, searched, page,
                    quality_leads, sent, delivered >>

\* await page.fill(...), of the e-mail address and of the password.
login_fill ==
    /\ pc = "login"
    /\ awaiting("fill")
    /\ \/ completes
       \/ caught
       \/ interrupted
    /\ UNCHANGED << today, history, browser, close_called, surface, searched,
                    page, quality_leads, sent, delivered >>

\* await page.click('button[type="submit"]'): the site answers the submit
\* with the feed, a verification checkpoint or the login form again.
login_click ==
    /\ pc = "login"
    /\ awaiting("click")
    /\ surface' \in Surfaces
    /\ \/ completes
       \/ caught
       \/ interrupted
    /\ UNCHANGED << today, history, browser, close_called, searched, page,
                    quality_leads, sent, delivered >>

\* await page.wait_for_load_state("networkidle"), of login_to_linkedin and
\* of search_posts: it returns, or times out.
wait_for_load_state ==
    /\ awaiting("wait_for_load_state")
    /\ \/ completes
       \/ caught
       \/ interrupted
    /\ UNCHANGED << today, history, browser, close_called, surface, searched,
                    page, quality_leads, sent, delivered >>

\* await self.random_delay(...): asyncio.sleep returns or is interrupted.
random_delay ==
    /\ awaiting("random_delay")
    /\ \/ completes
       \/ interrupted
    /\ UNCHANGED << today, history, browser, close_called, surface, searched,
                    page, quality_leads, sent, delivered >>

\* search_posts(page) is called and runs up to its first await: the query
\* of the day is selected.
search_call ==
    /\ pc = "search"
    /\ step = 0
    /\ searched' = TRUE
    /\ step' = 1
    /\ UNCHANGED << pc, today, history, browser, close_called, pending,
                    surface, login_result, page, all_posts,
                    search_query_used, quality_leads, sent, delivered >>

\* await page.goto(search_url): the result page shows one of the given
\* pages; the navigation may raise all the same.
search_goto(pages) ==
    /\ pc = "search"
    /\ awaiting("goto")
    /\ page' \in pages
    /\ \/ completes
       \/ caught
       \/ interrupted
    /\ UNCHANGED << today, history, browser, close_called, surface, searched,
                    quality_leads, sent, delivered >>

\* One await page.evaluate("window.scrollBy(0, window.innerHeight * 0.7)")
\* of human_like_scroll: the site may add an element of the given pool to the
\* page, up to the given length.
human_like_scroll(pool, max_length) ==
    /\ pc = "search"
    /\ awaiting("scrollBy")
    /\ \/ page' = page
       \/ /\ Len(page) < max_length
          /\ \E element \in pool : page' = Append(page, element)
    /\ \/ completes
       \/ caught
       \/ interrupted
    /\ UNCHANGED << today, history, browser, close_called, surface, searched,
                    quality_leads, sent, delivered >>

\* posts = await page.evaluate(<the extraction script>), on the page as it
\* is by then, and return posts, current_query[:50] + "...".
search_evaluate ==
    /\ pc = "search"
    /\ awaiting("evaluate")
    /\ \/ /\ all_posts' = extract_posts(page)
          /\ search_query_used' = query_preview(today)
          /\ pc' = "filter"
          /\ step' = 0
          /\ UNCHANGED << pending, login_result >>
       \/ caught
       \/ interrupted
    /\ UNCHANGED << today, history, browser, close_called, surface, searched,
                    page, quality_leads, sent, delivered >>

\* quality_leads = self.filter_quality_leads(all_posts): the leads are
\* returned and the accepted posts of all_posts carry the added keys.
filter_leads ==
    /\ pc = "filter"
    /\ quality_leads' = filter_quality_leads(all_posts)
    /\ all_posts' = posts_after_filter(all_posts)
    /\ pc' = "send_email"
    /\ UNCHANGED << step, today, history, browser, close_called, pending, surface,
                    login_result, searched, page, search_query_used, sent,
                    delivered >>

\* sum(lead['quality_score'] for lead in leads)
RECURSIVE total_score(_)
total_score(leads) ==
    IF leads = << >> THEN 0
    ELSE leads[1].quality_score + total_score(Tail(leads))

\* What one send_email call is given and puts in the subject line.
email_call(leads, query_used) ==
    [ leads |-> leads,
      search_query_used |-> query_used,
      count |-> Len(leads),
      score |-> total_score(leads) ]

\* send_email(quality_leads, search_query_used): the message is built and
\* handed to SMTP; an Exception is caught and logged inside send_email; an
\* interrupt reaches the finally clause.
send_email ==
    /\ pc = "send_email"
    /\ sent' = Append(sent, email_call(quality_leads, search_query_used))
    /\ \/ delivered' = TRUE /\ pending' = pending
       \/ delivered' = FALSE /\ pending' = pending
       \/ delivered' = FALSE /\ pending' = TRUE
    /\ pc' = "finally"
    /\ UNCHANGED << step, today, history, browser, close_called, surface,
                    login_result, searched, page, all_posts,
                    search_query_used, quality_leads >>

\* finally: await browser.close().  A pending interrupt, or an exception of
\* close itself, then leaves run_daily_search.
browser_close ==
    /\ pc = "finally"
    /\ close_called' = TRUE
    /\ browser' = "closed"
    /\ \/ pc' = (IF pending THEN "raised" ELSE "done")
       \/ pc' = "raised"
    /\ UNCHANGED << step, today, history, pending, surface, login_result, searched,
                    page, all_posts, search_query_used, quality_leads, sent,
                    delivered >>

Next ==
    \/ launch
    \/ new_context
    \/ new_page
    \/ login_goto
    \/ login_fill
    \/ login_click
    \/ wait_for_load_state
    \/ random_delay
    \/ search_call
    \/ search_goto(Pages)
    \/ human_like_scroll(ElementPool, MaxElements)
    \/ search_evaluate
    \/ filter_leads
    \/ send_email
    \/ browser_close

Spec == Init /\ [][Next]_vars

\* run_daily_search has returned or raised.
RunEnded == pc \in { "done", "raised" }

----------------------------------------------------------------------------
(* filter_quality_leads on its own: the input lists explored.              *)
(*   - one post whose text is 1..MaxWords words of Words, joined by        *)
(*     spaces (every category, letter case, exclusion and persona case);   *)
(*   - up to MaxRankPosts posts with texts of RankTexts (lists longer than *)
(*     the digest, with ties and distinct scores).                         *)

MaxWords == 2
MaxRankPosts == 10

Words ==
    { "hiring", "HIRING", "urgently need", "urgent", "flexible",
      "immediately", "remote", "EU", "WFH", "fintech", "pharma", "contract",
      "agile", "CDP", "digital transformation", "Open To Work", "candidates" }

RankTexts == { "hiring", "hiring remote" }

RECURSIVE join_words(_)
join_words(ws) ==
    IF Len(ws) = 1 THEN ws[1]
    ELSE join_words(SubSeq(ws, 1, Len(ws) - 1)) \o " " \o ws[Len(ws)]

\* A post as search_posts returns it, the index-th of its page (0-based).
input_post(text, index) ==
    [ text   |-> text,
      author |-> "Unknown",
      time   |-> "Unknown",
      url    |-> "https://www.linkedin.com/posts/p" \o IntToStr(index),
      id     |-> "post_" \o IntToStr(index) ]

FilterInit ==
    /\ pc = "input"
    /\ today \in { date \in RunDates : date.day = 28 }
    /\ Fresh

\* The caller's list is a single post with a text of 1..MaxWords words.
add_worded_post ==
    /\ pc = "input"
    /\ all_posts = << >>
    /\ \E n \in 1..MaxWords : \E ws \in [1..n -> Words] :
          all_posts' = << input_post(join_words(ws), 0) >>
    /\ pc' = "ready"
    /\ UNCHANGED << step, today, history, browser, close_called, pending, surface,
                    login_result, searched, page, search_query_used,
                    quality_leads, sent, delivered >>

\* The caller's list grows by one post with a text of RankTexts.
add_rank_post ==
    /\ pc = "input"
    /\ Len(all_posts) < MaxRankPosts
    /\ \E text \in RankTexts :
          all_posts' = Append(all_posts, input_post(text, Len(all_posts)))
    /\ pc' = pc
    /\ UNCHANGED << step, today, history, browser, close_called, pending, surface,
                    login_result, searched, page, search_query_used,
                    quality_leads, sent, delivered >>

\* filter_quality_leads(all_posts) is called and returns.
call_filter ==
    /\ pc \in { "input", "ready" }
    /\ quality_leads' = filter_quality_leads(all_posts)
    /\ all_posts' = posts_after_filter(all_posts)
    /\ pc' = "filtered"
    /\ UNCHANGED << step, today, history, browser, close_called, pending, surface,
                    login_result, searched, page, search_query_used, sent,
                    delivered >>

FilterNext == add_worded_post \/ add_rank_post \/ call_filter

SpecFilter == FilterInit /\ [][FilterNext]_vars

----------------------------------------------------------------------------
(* The rotation over consecutive days: the scheduler starts one run a day, *)
(* each run's search_posts selects the query of its day.                   *)

RotationInit ==
    /\ pc = "scheduled"
    /\ today \in Dates(FirstYear)
    /\ Fresh

\* The selections of the latest len(search_queries) consecutive runs.
latest(selections) ==
    IF Len(selections) <= Len(search_queries) THEN selections
    ELSE Tail(selections)

\* One daily run selects its query; the next run is the next calendar day.
daily_selection ==
    /\ pc = "scheduled"
    /\ today.year <= LastYear
    /\ history' = latest(Append(history, query_index(today)))
    /\ today' = next_day(today)
    /\ UNCHANGED << pc, step, browser, close_called, pending, surface,
                    login_result, searched, page, all_posts,
                    search_query_used, quality_leads, sent, delivered >>

RotationNext == daily_selection

SpecRotation == RotationInit /\ [][RotationNext]_vars

----------------------------------------------------------------------------
(* search_posts on long result pages: up to MaxPageLength elements, all    *)
(* with a link and a text above the minimum length, except for at most     *)
(* MaxDropped elements without link.  The run is taken up where            *)
(* login_to_linkedin has returned True.                                    *)

MaxPageLength == 22
MaxDropped == 1

\* An element the extraction keeps: a link, 51 characters, no data-id value
\* (its id is "post_<index>").
KeptElement ==
    [ textContent |-> Text51, link |-> << "/posts/beta-4" >>,
      data_id |-> "", author |-> Missing, time |-> << "1d " >> ]

\* An element the extraction drops: no link.
DroppedElement ==
    [ textContent |-> HiringText, link |-> Missing,
      data_id |-> "urn:li:activity:2", author |-> << "Acme HR" >>,
      time |-> << "2h" >> ]

\* The page of the given length whose elements at the given positions are
\* dropped ones.
long_page(length, dropped) ==
    [ i \in 1..length |->
        IF i \in dropped THEN DroppedElement ELSE KeptElement ]

\* The sets of at most MaxDropped positions of a page.
dropped_positions(length) ==
    { { f[k] : k \in 1..MaxDropped } \ { 0 } :
        f \in [1..MaxDropped -> 0..length] }

LongPages ==
    UNION { { long_page(length, dropped) :
                dropped \in dropped_positions(length) } :
            length \in 0..MaxPageLength }

\* login_to_linkedin has returned True on the feed and search_posts is about
\* to be called.
ExtractInit ==
    /\ pc = "search"
    /\ step = 0
    /\ today \in { date \in RunDates : date.day = 28 }
    /\ history = << >>
    /\ browser = "open"
    /\ close_called = FALSE
    /\ pending = FALSE
    /\ surface = "feed"
    /\ login_result = "True"
    /\ searched = FALSE
    /\ page = << >>
    /\ all_posts = << >>
    /\ search_query_used = ""
    /\ quality_leads = << >>
    /\ sent = << >>
    /\ delivered = FALSE

ExtractNext ==
    \/ search_call
    \/ search_goto(LongPages)
    \/ wait_for_load_state
    \/ random_delay
    \/ human_like_scroll({ KeptElement }, MaxPageLength)
    \/ search_evaluate

SpecExtract == ExtractInit /\ [][ExtractNext]_vars

----------------------------------------------------------------------------
(* Vocabulary of the properties.                                           *)

\* Every term of a table in lower case.
Lowered(terms) == [ i \in 1..Len(terms) |-> str_lower(terms[i]) ]

ExclusionsLowered == Lowered(exclusions)

\* The lower-cased text contains one of the lower-cased terms: the text
\* contains the term in any letter case.
Mentions(lowered_terms, text_lower) ==
    \E i \in 1..Len(lowered_terms) : Contains(lowered_terms[i], text_lower)

\* The text contains a job-seeker exclusion phrase, in any letter case.
MentionsExclusion(text) == Mentions(ExclusionsLowered, str_lower(text))

\* The lead returned for a post, if any: the same id, text and url.
SamePost(a, b) == a.id = b.id /\ a.text = b.text /\ a.url = b.url

InLeads(post, leads) == \E k \in 1..Len(leads) : SamePost(post, leads[k])

Returned(post) == InLeads(post, quality_leads)

\* The position of a returned lead in the input list.
InputIndex(lead) == CHOOSE k \in 1..Len(all_posts) : SamePost(all_posts[k], lead)

\* The six signal categories in the order of the scoring code (1 is
\* hiring-intent, 6 is immediacy), their tables and their weights.
CategoryTerms ==
    << hiring_signals, quality_indicators, location_indicators,
       industry_signals, contract_terms, immediate_terms >>

CategoryWeight ==
    << HiringWeight, QualityWeight, LocationWeight, IndustryWeight,
       ContractWeight, ImmediateWeight >>

CategoryTermsLowered ==
    [ c \in 1..Len(CategoryTerms) |-> Lowered(CategoryTerms[c]) ]

\* The categories of which the text contains a term, in any letter case.
CategoriesMentioned(text) ==
    LET text_lower == str_lower(text)
    IN  { c \in 1..Len(CategoryTerms) :
            Mentions(CategoryTermsLowered[c], text_lower) }

\* The text contains a keyword of some persona, in any letter case.
PersonaMentioned(text) ==
    LET text_lower == str_lower(text)
    IN  \E n \in 1..Len(persona_keywords) :
            Mentions(persona_keywords_lower[n], text_lower)

\* The text matches exactly one signal category and no persona keyword.
SingleCategory(text) ==
    Cardinality(CategoriesMentioned(text)) = 1 /\ ~PersonaMentioned(text)

RECURSIVE WeightOf(_)
WeightOf(categories) ==
    IF categories = {} THEN 0
    ELSE LET c == CHOOSE c \in categories : TRUE
         IN  CategoryWeight[c] + WeightOf(categories \ {c})

\* The score of a text when every category whose term it contains in any
\* letter case adds its weight, and every persona keyword adds 2.
CaseInsensitiveScore(text) ==
    WeightOf(CategoriesMentioned(text))
    + persona_score(Len(persona_keywords), str_lower(text))

----------------------------------------------------------------------------
(* Properties of filter_quality_leads, checked under SpecFilter.           *)

\* C1: a post whose text contains a job-seeker exclusion phrase, in any
\* letter case, is never among the leads filter_quality_leads returns,
\* whatever other terms the text holds.
C1_ExclusionPrecedence ==
    pc = "filtered" =>
        \A i \in 1..Len(all_posts) :
            MentionsExclusion(all_posts[i].text)
                => ~Returned(all_posts[i])

\* A filtered post that holds an exclusion phrase in mixed case next to a
\* hiring term.
C1_Witness ==
    /\ pc = "filtered"
    /\ \E i \in 1..Len(all_posts) :
          /\ Contains("Open To Work", all_posts[i].text)
          /\ Contains("hiring", all_posts[i].text)
          /\ ~Returned(all_posts[i])

\* C2: the returned list is non-increasing in quality_score, leads of equal
\* quality_score keep their input order, and at most 9 leads are returned.
C2_Ranking ==
    pc = "filtered" =>
        /\ Len(quality_leads) <= 9
        /\ \A i, j \in 1..Len(quality_leads) :
              i < j =>
                /\ quality_leads[i].quality_score
                      >= quality_leads[j].quality_score
                /\ quality_leads[i].quality_score
                      = quality_leads[j].quality_score
                   => InputIndex(quality_leads[i]) < InputIndex(quality_leads[j])

\* More than 9 accepted posts went in, 9 came out, with both a tie and a
\* lead that overtook an earlier post of lower score.
C2_Witness ==
    /\ pc = "filtered"
    /\ Len(all_posts) > 9
    /\ Len(quality_leads) = 9
    /\ \E i, j \in 1..Len(quality_leads) :
          /\ i < j
          /\ quality_leads[i].quality_score = quality_leads[j].quality_score
    /\ \E i, j \in 1..Len(quality_leads) :
          /\ i < j
          /\ quality_leads[i].quality_score > quality_leads[j].quality_score
          /\ InputIndex(quality_leads[i]) > InputIndex(quality_leads[j])

\* C7: every returned lead carries an integer quality_score between 0 and
\* 10, and its raw score is at least the threshold 4.
C7_ScoreBounded ==
    pc = "filtered" =>
        \A k \in 1..Len(quality_leads) :
            /\ quality_leads[k].quality_score \in 0..10
            /\ raw_score(str_lower(quality_leads[k].text)) >= 4

\* A returned lead whose raw score is above 10.
C7_Witness ==
    /\ pc = "filtered"
    /\ \E k \in 1..Len(quality_leads) :
          /\ raw_score(str_lower(quality_leads[k].text)) > 10
          /\ quality_leads[k].quality_score = 10

\* C9 as claimed: a post that matches exactly one signal category and no
\* persona keyword scores below 4 and is not returned.
C9_NoSingleCategoryAccepted ==
    pc = "filtered" =>
        \A i \in 1..Len(all_posts) :
            SingleCategory(all_posts[i].text) =>
                /\ raw_score(str_lower(all_posts[i].text)) < 4
                /\ ~Returned(all_posts[i])

\* C9 as amended: a post that matches exactly one signal category other
\* than hiring-intent, and no persona keyword, scores below 4 and is not
\* returned; a post that matches hiring-intent alone scores exactly 4, and
\* is returned when it holds no exclusion phrase and the list has at most 9
\* posts.
C9_OnlyHiringAloneAccepted ==
    pc = "filtered" =>
        \A i \in 1..Len(all_posts) :
            LET text       == all_posts[i].text
                categories == CategoriesMentioned(text)
            IN  (Cardinality(categories) = 1 /\ ~PersonaMentioned(text)) =>
                    IF categories = { 1 }
                    THEN /\ raw_score(str_lower(text)) = 4
                         /\ (~MentionsExclusion(text) /\ Len(all_posts) <= 9)
                            => Returned(all_posts[i])
                    ELSE /\ raw_score(str_lower(text)) < 4
                         /\ ~Returned(all_posts[i])

\* A filtered post that matches the immediacy category alone: raw score 3,
\* not returned.
C9_Witness ==
    /\ pc = "filtered"
    /\ \E i \in 1..Len(all_posts) :
          /\ SingleCategory(all_posts[i].text)
          /\ CategoriesMentioned(all_posts[i].text) = { 6 }
          /\ raw_score(str_lower(all_posts[i].text)) = 3
          /\ ~Returned(all_posts[i])

\* C10: for a post without exclusion phrase, every category of which the
\* text contains a term, in any letter case, has added its weight to the
\* score.
C10_CaseInsensitiveCategories ==
    pc = "filtered" =>
        \A i \in 1..Len(all_posts) :
            ~MentionsExclusion(all_posts[i].text) =>
                raw_score(str_lower(all_posts[i].text))
                    = CaseInsensitiveScore(all_posts[i].text)

----------------------------------------------------------------------------
(* Properties of run_daily_search, checked under Spec.                     *)

\* C3: when login_to_linkedin has returned False, the run ends without a
\* call of search_posts and with send_email invoked.
C3_LoginFailureReported ==
    (RunEnded /\ login_result = "False") =>
        (~searched /\ Len(sent) > 0)

\* C4: login_to_linkedin returns True only with the session off the login
\* and challenge surfaces; when it returns on a checkpoint surface the
\* login is a failure and no search follows.
C4_LoginSuccessCriterion ==
    /\ login_result = "True" => surface \notin { "login", "checkpoint" }
    /\ (surface = "checkpoint" /\ login_result # "pending")
          => (login_result = "False" /\ ~searched)

\* C5: once the browser has been launched, browser.close() has been
\* executed when the run ends, whatever the exit path.
C5_BrowserReleased ==
    (RunEnded /\ browser # "none") => close_called

\* A raw record without url, or with a text shorter than the shortest text
\* the extraction keeps (one of more than MinTextLength characters).
TooShort(record) == Len(record.text) <= MinTextLength

\* A raw record the extraction is claimed to drop.
Ineligible(record) == record.url = "" \/ TooShort(record)

\* C8: a raw record with an empty url, or a text shorter than the minimum
\* length, is not among the posts given to filter_quality_leads, nor among
\* the leads it returns, nor in a digest given to send_email.
C8_ExtractionEligibility ==
    \A i \in 1..Len(page) :
        LET record == raw_record(page[i], i - 1)
        IN  Ineligible(record) =>
                /\ ~InLeads(record, all_posts)
                /\ ~InLeads(record, quality_leads)
                /\ \A k \in 1..Len(sent) : ~InLeads(record, sent[k].leads)

\* filter_quality_leads would accept the record, had it been extracted.
Acceptable(record) == loop_body(record) # << >>

\* The extraction script ran on a page that held two records
\* filter_quality_leads would accept, one without url and with a text long
\* enough, the other with a url and a text below MinTextLength characters;
\* the digest was sent and neither is in it.
C8_Witness ==
    /\ Len(sent) > 0
    /\ sent[1].search_query_used = query_preview(today)
    /\ \E i, j \in 1..Len(page) :
          LET linkless == raw_record(page[i], i - 1)
              short    == raw_record(page[j], j - 1)
          IN  /\ linkless.url = "" /\ ~TooShort(linkless)
              /\ short.url # "" /\ Len(short.text) < MinTextLength
              /\ Acceptable(linkless) /\ Acceptable(short)
              /\ ~InLeads(linkless, sent[1].leads)
              /\ ~InLeads(short, sent[1].leads)

----------------------------------------------------------------------------
(* The rotation property, checked under SpecRotation.                      *)

\* C6: over runs on consecutive days, all 4 variants are selected before
\* any is selected again: the selections of up to 4 consecutive runs differ
\* pairwise.
C6_FullRotationBeforeRepeat ==
    \A i, j \in 1..Len(history) : i # j => history[i] # history[j]

----------------------------------------------------------------------------
(* The extraction cap, checked under SpecExtract.                          *)

\* C11: whatever the number of elements on the page, search_posts considers
\* only its first 20 elements: it returns at most 20 records, each one the
\* record of one of the first 20 elements.
C11_ExtractionCap ==
    (pc = "filter" /\ searched) =>
        /\ Len(all_posts) <= 20
        /\ \A k \in 1..Len(all_posts) :
              \E i \in 1..Len(page) :
                  i <= 20 /\ all_posts[k] = raw_record(page[i], i - 1)

====
